---- MODULE Spec2Model ----
(***************************************************************************)
(* A model of pao/lbp/convert_repn.py: the conversion of a multilevel      *)
(* linear/quadratic problem to standard form.                              *)
(*                                                                         *)
(* Indices are 0-based as in the Python source; a Python list or numpy     *)
(* vector is a TLA+ sequence read with At(s, i) == s[i+1].  A sparse       *)
(* matrix is a record [nr, nc, v] with v its dense rows; an entry is       *)
(* "stored" when it is nonzero.  Python's None is the empty sequence and   *)
(* a present value x is <<x>>.                                             *)
(***************************************************************************)
EXTENDS Integers, Sequences, FiniteSets, TLC

VARIABLES
    M,             \* the object passed to convert_to_standard_form
    inequalities,  \* the argument `inequalities`
    ans,           \* the object the local name `ans` is bound to
    ansRef,        \* which object `ans` names: "unset", "clone" or "M"
    changes,       \* the dict `changes` returned by convert_to_nonnegative_variables
    multipliers,   \* the dict built by get_multipliers
    pc,            \* position in convert_to_standard_form
    err,           \* the exception that ended the call ("" while none)
    ret,           \* what the call returned: None, or <<[ans, multipliers]>>
    snap,          \* history: the value of `ans` after each step of the pipeline
    lvl,           \* a level drawn for the repeated application of convert_sense
    lvl1,          \* that level as the first application left it
    sense,         \* the target sense of that repeated application
    napplied,      \* how many times convert_sense has been applied to lvl
    xblock,        \* a variable block drawn for _find_nonpositive_variables alone
    ineqForm,      \* the argument `inequalities` of that call
    scanned        \* what that call returned: None, or <<[ok, changes]>>

vars == <<M, inequalities, ans, ansRef, changes, multipliers, pc, err, ret, snap,
          lvl, lvl1, sense, napplied, xblock, ineqForm, scanned>>

---------------------------------------------------------------------------
(* Bounds of the model and the values inputs are drawn from *)

\* largest number of variables (continuous plus integer) of the whole problem
MaxVars == 2
\* largest number of constraint rows of a level
MaxRows == 1
\* the finite lower bound and the finite upper bound of the inputs
LbVal == 2
UbVal == 5
\* how often convert_sense is applied to one level in SenseSpec
MaxApply == 3
\* largest number of variables of a block scanned alone in FindSpec
MaxFindVars == 4

\* np.PINF and np.NINF
PINF == 1000
NINF == -PINF

\* The level ids of the problem tree: level 1 is the root, level 2 its child.
LevelIds == {1, 2}

None == <<>>
Some(x) == <<x>>
Get(o) == o[1]

At(s, i) == s[i + 1]
Put(s, i, x) == [s EXCEPT ![i + 1] = x]
Zeros(n) == [k \in 1..n |-> 0]
Range0(n) == 0..(n - 1)

RECURSIVE SumOver(_, _)
\* sum of f[k] for k in the finite set S
SumOver(f, S) ==
    IF S = {} THEN 0
    ELSE LET k == CHOOSE k \in S : TRUE IN f[k] + SumOver(f, S \ {k})

---------------------------------------------------------------------------
(* Sparse matrices (scipy.sparse) *)

Mat(nr, nc, f(_, _)) ==
    [nr |-> nr, nc |-> nc,
     v |-> [r \in 1..nr |-> [k \in 1..nc |-> f(r - 1, k - 1)]]]

\* A[r, k], 0 outside the shape
Ent(A, r, k) == IF r < A.nr /\ k < A.nc /\ r >= 0 /\ k >= 0 THEN A.v[r + 1][k + 1] ELSE 0

\* A.resize([nr, nc]): entries outside the new shape are dropped, new ones are 0
MatResize(A, nr, nc) ==
    LET E(r, k) == Ent(A, r, k) IN Mat(nr, nc, E)

\* mat.multiply(-1)
MatNeg(A) ==
    LET E(r, k) == 0 - Ent(A, r, k) IN Mat(A.nr, A.nc, E)

---------------------------------------------------------------------------
(* VChange objects *)

VChange(cls, real, v, w, lb, ub) ==
    [cls |-> cls, real |-> real, v |-> v, w |-> w, lb |-> lb, ub |-> ub]
VChangeLowerBound(real, v, lb) == VChange("LowerBound", real, v, None, Some(lb), None)
VChangeUpperBound(real, v, ub) == VChange("UpperBound", real, v, None, None, Some(ub))
VChangeRange(real, v, lb, ub, w) == VChange("Range", real, v, w, Some(lb), Some(ub))
VChangeUnbounded(real, v, w) == VChange("Unbounded", real, v, Some(w), None, None)

\* VChanges(): an empty change list with zero counts
VChanges == [data |-> <<>>, nxR_old |-> 0, nxZ_old |-> 0, nxR |-> 0, nxZ |-> 0]

---------------------------------------------------------------------------
(* _find_nonpositive_variables *)

\* the loop body with the slack of an equality-form Range left uncounted
FindStepSlackUncounted(V, ineq, i, st) ==
    LET lb == At(V.lower_bounds, i)
        ub == At(V.upper_bounds, i)
        isReal == i < V.nxR
    IN  IF ub = PINF
        THEN IF lb = 0 THEN st
             ELSE IF lb = NINF
                  THEN IF isReal
                       THEN [data |-> Append(st.data, VChangeUnbounded(TRUE, i, st.nxR)),
                             nxR |-> st.nxR + 1, nxZ |-> st.nxZ]
                       ELSE [data |-> Append(st.data, VChangeUnbounded(FALSE, i, st.nxZ)),
                             nxR |-> st.nxR, nxZ |-> st.nxZ + 1]
                  ELSE [st EXCEPT !.data = Append(@, VChangeLowerBound(isReal, i, lb))]
        ELSE IF lb = NINF
             THEN [st EXCEPT !.data = Append(@, VChangeUpperBound(isReal, i, ub))]
             ELSE IF ineq
                  THEN [st EXCEPT !.data = Append(@, VChangeRange(isReal, i, lb, ub, None))]
                  ELSE [st EXCEPT !.data = Append(@, VChangeRange(isReal, i, lb, ub, Some(st.nxR)))]

\* One pass of the loop over the variables: the change (if any) of variable i
\* and the counters after it.  st = [data, nxR, nxZ].
FindStep(V, ineq, i, st) ==
    LET lb == At(V.lower_bounds, i)
        ub == At(V.upper_bounds, i)
        isReal == i < V.nxR
    IN  IF ub = PINF
        THEN IF lb = 0 THEN st
             ELSE IF lb = NINF
                  THEN IF isReal
                       THEN [data |-> Append(st.data, VChangeUnbounded(TRUE, i, st.nxR)),
                             nxR |-> st.nxR + 1, nxZ |-> st.nxZ]
                       ELSE [data |-> Append(st.data, VChangeUnbounded(FALSE, i, st.nxZ)),
                             nxR |-> st.nxR, nxZ |-> st.nxZ + 1]
                  ELSE [st EXCEPT !.data = Append(@, VChangeLowerBound(isReal, i, lb))]
        ELSE IF lb = NINF
             THEN [st EXCEPT !.data = Append(@, VChangeUpperBound(isReal, i, ub))]
             ELSE IF ineq
                  THEN [st EXCEPT !.data = Append(@, VChangeRange(isReal, i, lb, ub, None))]
                  ELSE [data |-> Append(st.data, VChangeRange(isReal, i, lb, ub, Some(st.nxR))),
                        nxR |-> st.nxR + 1, nxZ |-> st.nxZ]

RECURSIVE FindLoop(_, _, _, _)
FindLoop(V, ineq, i, st) ==
    IF i >= V.nxR + V.nxZ THEN st
    ELSE FindLoop(V, ineq, i + 1, FindStep(V, ineq, i, st))

\* the change list left as the scan wrote it
ResetIntegerIdsNone(V, c, nxR) == c

\* "Reset the variable id for integers, given the final value of nxR"
ResetIntegerIds(V, c, nxR) ==
    LET c1 == IF c.real = FALSE THEN [c EXCEPT !.v = @ + (nxR - V.nxR)] ELSE c
    IN  IF c1.cls = "Unbounded" /\ c1.real = FALSE
        THEN [c1 EXCEPT !.w = Some(Get(@) + nxR)]
        ELSE c1

\* the number of changes that carry a new index w
NumNew(data) == Cardinality({k \in DOMAIN data : data[k].w # None})

\* The result [ok, changes]: ok is the value of the assert on the count identity.
_find_nonpositive_variables(V, ineq) ==
    LET st == FindLoop(V, ineq, 0, [data |-> <<>>, nxR |-> V.nxR, nxZ |-> V.nxZ])
        data == [k \in DOMAIN st.data |-> ResetIntegerIds(V, st.data[k], st.nxR)]
    IN  [ok |-> (st.nxR + st.nxZ = V.nxR + V.nxZ + NumNew(data)),
         changes |-> [data |-> data, nxR_old |-> V.nxR, nxZ_old |-> V.nxZ,
                      nxR |-> st.nxR, nxZ |-> st.nxZ]]

---------------------------------------------------------------------------
(* The problem representation (repn.py): levels, traversal, resize, clone *)

\* len(L.x)
XLen(x) == x.nxR + x.nxZ + x.nxB

\* ans.levels(): every level of the tree, the root first
ProblemLevels(p) == <<1, 2>>

\* L.levels(): the levels that can reference the variables of level L
LevelLevels(p, L) == <<1, 2>>

\* The vector s, laid out for (oR, oZ) variables, laid out for (nR, nZ):
\* continuous entries keep their index, integer entries follow the
\* continuous block, new slots hold dflt.
ResizeVector(s, oR, oZ, nR, nZ, dflt) ==
    [k \in 1..(nR + nZ) |->
        LET i == k - 1 IN
        IF i < nR
        THEN IF i < oR THEN s[i + 1] ELSE dflt
        ELSE IF i - nR < oZ THEN s[oR + (i - nR) + 1] ELSE dflt]

\* the same for the columns of a matrix
ResizeColumns(A, oR, oZ, nR, nZ) ==
    [nr |-> A.nr, nc |-> nR + nZ,
     v |-> [r \in 1..A.nr |-> ResizeVector(A.v[r], oR, oZ, nR, nZ, 0)]]

\* L.resize(nxR=, nxZ=, nxB=, lb=, ub=): the variable block of level L gets the
\* new counts, and every c[L] and A[L] of the tree follows the new layout.
LevelResize(p, L, nxR, nxZ, lb, ub) ==
    LET x == p.lv[L].x
        oR == x.nxR
        oZ == x.nxZ
        newx == [nxR |-> nxR, nxZ |-> nxZ, nxB |-> x.nxB,
                 lower_bounds |-> ResizeVector(x.lower_bounds, oR, oZ, nxR, nxZ, lb),
                 upper_bounds |-> ResizeVector(x.upper_bounds, oR, oZ, nxR, nxZ, ub)]
        newc(X) == IF p.lv[X].c[L] = None THEN None
                   ELSE Some(ResizeVector(Get(p.lv[X].c[L]), oR, oZ, nxR, nxZ, 0))
        newA(X) == IF p.lv[X].A[L] = None THEN None
                   ELSE Some(ResizeColumns(Get(p.lv[X].A[L]), oR, oZ, nxR, nxZ))
    IN  [p EXCEPT !.lv = [X \in DOMAIN p.lv |->
            [p.lv[X] EXCEPT !.x = IF X = L THEN newx ELSE @,
                            !.c[L] = newc(X),
                            !.A[L] = newA(X)]]]

\* M.clone(): a deep copy
clone(p) == p

---------------------------------------------------------------------------
(* _process_changes_obj *)

\* _process_changes_obj with the sign flip of UpperBound left out
ObjStepNoFlip(chg, st) ==
    LET c == st.c
        d == st.d
        v == chg.v
    IN  IF chg.cls = "LowerBound"
        THEN [c |-> c, d |-> d + At(c, v) * Get(chg.lb)]
        ELSE IF chg.cls = "UpperBound"
        THEN [c |-> c, d |-> d + At(c, v) * Get(chg.ub)]
        ELSE IF chg.cls = "Range"
        THEN [c |-> IF chg.w # None THEN Put(c, Get(chg.w), 0) ELSE c,
              d |-> d + At(c, v) * Get(chg.lb)]
        ELSE [c |-> Put(c, Get(chg.w), 0 - At(c, v)), d |-> d]

ObjStep(chg, st) ==
    LET c == st.c
        d == st.d
        v == chg.v
    IN  IF chg.cls = "LowerBound"
        THEN [c |-> c, d |-> d + At(c, v) * Get(chg.lb)]
        ELSE IF chg.cls = "UpperBound"
        THEN [c |-> Put(c, v, At(c, v) * (-1)), d |-> d + At(c, v) * Get(chg.ub)]
        ELSE IF chg.cls = "Range"
        THEN [c |-> IF chg.w # None THEN Put(c, Get(chg.w), 0) ELSE c,
              d |-> d + At(c, v) * Get(chg.lb)]
        ELSE [c |-> Put(c, Get(chg.w), 0 - At(c, v)), d |-> d]

RECURSIVE ObjLoop(_, _, _)
ObjLoop(data, k, st) ==
    IF k > Len(data) THEN st ELSE ObjLoop(data, k + 1, ObjStep(data[k], st))

\* returns [c, d]; c is None or Some(vector)
_process_changes_obj(chgs, V, c, d) ==
    IF c = None THEN [c |-> c, d |-> d]
    ELSE LET st == ObjLoop(chgs.data, 1, [c |-> Get(c), d |-> d])
         IN  [c |-> Some(st.c), d |-> st.d]

---------------------------------------------------------------------------
(* _process_changes_con *)

\* b[row] -= Acsc[row, v]*t for every row with a stored entry in column v
ShiftRhs(b, A, v, t) ==
    [k \in DOMAIN b |-> IF k <= A.nr THEN b[k] - Ent(A, k - 1, v) * t ELSE b[k]]

\* Acsc[row, v] *= -1 for every row with a stored entry in column v
NegateColumn(A, v) ==
    LET E(r, k) == IF k = v THEN Ent(A, r, k) * (-1) ELSE Ent(A, r, k)
    IN  Mat(A.nr, A.nc, E)

\* B[key] = val
DictSet(B, key, val) ==
    [k \in (DOMAIN B) \cup {key} |-> IF k = key THEN val ELSE B[k]]

\* B[row, w] = -Acsc[row, v] for every row with a stored entry in column v
RECURSIVE NegatedColumnInto(_, _, _, _, _)
NegatedColumnInto(B, A, v, w, row) ==
    IF row >= A.nr THEN B
    ELSE NegatedColumnInto(IF Ent(A, row, v) # 0
                           THEN DictSet(B, <<row, w>>, 0 - Ent(A, row, v))
                           ELSE B,
                           A, v, w, row + 1)

\* st = [A, b, B, nrows]; hasA is "A is not None"
ConStep(chg, st, hasA, add_rows) ==
    LET v == chg.v IN
    IF chg.cls = "LowerBound"
    THEN IF hasA THEN [st EXCEPT !.b = ShiftRhs(st.b, st.A, v, Get(chg.lb))] ELSE st
    ELSE IF chg.cls = "UpperBound"
    THEN IF hasA
         THEN [st EXCEPT !.b = ShiftRhs(st.b, st.A, v, Get(chg.ub)),
                         !.A = NegateColumn(st.A, v)]
         ELSE st
    ELSE IF chg.cls = "Range"
    THEN LET b1 == IF hasA THEN ShiftRhs(st.b, st.A, v, Get(chg.lb)) ELSE st.b
             B1 == DictSet(st.B, <<st.nrows, v>>, 1)
             B2 == IF chg.w # None THEN DictSet(B1, <<st.nrows, Get(chg.w)>>, 1) ELSE B1
         IN  IF add_rows
             THEN [A |-> st.A, b |-> Append(b1, Get(chg.ub) - Get(chg.lb)),
                   B |-> B2, nrows |-> st.nrows + 1]
             ELSE [st EXCEPT !.b = b1]
    ELSE IF hasA
         THEN [st EXCEPT !.B = NegatedColumnInto(st.B, st.A, v, Get(chg.w), 0)]
         ELSE st

RECURSIVE ConLoop(_, _, _, _, _)
ConLoop(data, k, st, hasA, add_rows) ==
    IF k > Len(data) THEN st
    ELSE ConLoop(data, k + 1, ConStep(data[k], st, hasA, add_rows), hasA, add_rows)

\* Bdok: the items of B, then the stored items of A over them
MergeItems(B, A, nrows, ncols) ==
    LET E(r, k) == IF Ent(A, r, k) # 0 THEN Ent(A, r, k)
                   ELSE IF <<r, k>> \in DOMAIN B THEN B[<<r, k>>] ELSE 0
    IN  Mat(nrows, ncols, E)

\* csc_matrix(0)
EmptyCsc == [nr |-> 1, nc |-> 1, v |-> <<<<0>>>>]

\* returns [A, b]; A is None or Some(matrix)
_process_changes_con(chgs, V, A, b, add_rows) ==
    LET Acsc == IF A = None THEN EmptyCsc ELSE Get(A)
        nrows == IF A = None THEN 0 ELSE Get(A).nr
        st == ConLoop(chgs.data, 1, [A |-> Acsc, b |-> b, B |-> <<>>, nrows |-> nrows],
                      A # None, add_rows)
    IN  IF st.nrows = 0 THEN [A |-> None, b |-> st.b]
        ELSE [A |-> Some(MergeItems(st.B, st.A, st.nrows, chgs.nxR + chgs.nxZ + V.nxB)),
              b |-> st.b]

---------------------------------------------------------------------------
(* convert_to_nonnegative_variables *)

\* the body of "for X in L.levels()" without the loop over X.P
NonnegReferenceSkipP(st, chgs, L, X) ==
    IF st.err # "" THEN st
    ELSE LET p == st.p
             lx == p.lv[L].x
             o == _process_changes_obj(chgs, lx, p.lv[X].c[L], p.lv[X].d)
             a == _process_changes_con(chgs, lx, p.lv[X].A[L], p.lv[X].b, L = X)
         IN  [err |-> "",
              p |-> [p EXCEPT !.lv[X].c[L] = o.c, !.lv[X].d = o.d,
                              !.lv[X].A[L] = a.A, !.lv[X].b = a.b]]

\* the body of "for X in L.levels()" for one X; st is [err, p]
NonnegReference(st, chgs, L, X) ==
    IF st.err # "" THEN st
    ELSE LET p == st.p
             lx == p.lv[L].x
             o == _process_changes_obj(chgs, lx, p.lv[X].c[L], p.lv[X].d)
             a == _process_changes_con(chgs, lx, p.lv[X].A[L], p.lv[X].b, L = X)
             q == [p EXCEPT !.lv[X].c[L] = o.c, !.lv[X].d = o.d,
                            !.lv[X].A[L] = a.A, !.lv[X].b = a.b]
         IN  \* "for i,j in X.P": _process_changes_P takes four parameters and is
             \* called with six arguments
             IF DOMAIN q.lv[X].P # {} THEN [err |-> "TypeError", p |-> q]
             ELSE [err |-> "", p |-> q]

\* the rewrite of the owning level's data only
NonnegReferencesOwn(st, chgs, L, Xs, k) == NonnegReference(st, chgs, L, L)

RECURSIVE NonnegReferences(_, _, _, _, _)
\* "for X in L.levels()"
NonnegReferences(st, chgs, L, Xs, k) ==
    IF k > Len(Xs) THEN st
    ELSE NonnegReferences(NonnegReference(st, chgs, L, Xs[k]), chgs, L, Xs, k + 1)

\* the body of the second "for L in ans.levels()" for one L
NonnegLevel(st, chgs, L) ==
    IF st.err # "" THEN st
    ELSE LET p1 == LevelResize(st.p, L, chgs.nxR, chgs.nxZ, NINF, PINF)
             p2 == [p1 EXCEPT !.lv[L].x.lower_bounds = Zeros(XLen(p1.lv[L].x))]
         IN  IF Len(chgs.data) > 0
             THEN NonnegReferences([err |-> "", p |-> p2], chgs, L, LevelLevels(p2, L), 1)
             ELSE [err |-> "", p |-> p2]

RECURSIVE NonnegLevels(_, _, _, _)
NonnegLevels(st, chgs, Ls, k) ==
    IF k > Len(Ls) THEN st
    ELSE NonnegLevels(NonnegLevel(st, chgs[Ls[k]], Ls[k]), chgs, Ls, k + 1)

\* returns [err, p, changes]
convert_to_nonnegative_variables(p, ineq) ==
    LET Ls == ProblemLevels(p)
        found == [L \in LevelIds |-> _find_nonpositive_variables(p.lv[L].x, ineq)]
        chgs == [L \in LevelIds |-> found[L].changes]
    IN  IF \E L \in LevelIds : ~found[L].ok
        THEN [err |-> "AssertionError", p |-> p, changes |-> chgs]
        ELSE LET st == NonnegLevels([err |-> "", p |-> p], chgs, Ls, 1)
             IN  [err |-> st.err, p |-> st.p, changes |-> chgs]

---------------------------------------------------------------------------
(* convert_sense, convert_to_minimization *)

NegVec(c) == [k \in DOMAIN c |-> c[k] * (-1)]

\* convert_sense that negates only the vector of the level's own variables
convert_sense_own_c(L, minimize) ==
    IF (minimize /\ ~L.minimize) \/ (~minimize /\ L.minimize)
    THEN [L EXCEPT !.minimize = minimize,
                   !.d = @ * (-1),
                   !.c = [i \in DOMAIN @ |-> IF @[i] = None \/ i # L.id THEN @[i]
                                             ELSE Some(NegVec(Get(@[i])))],
                   !.P = IF L.type = "QuadraticLevelRepn"
                         THEN [ij \in DOMAIN @ |-> MatNeg(@[ij])]
                         ELSE @]
    ELSE L

\* convert_sense without the test of the current sense
convert_sense_always(L, minimize) ==
    [L EXCEPT !.minimize = minimize,
              !.d = @ * (-1),
              !.c = [i \in DOMAIN @ |-> IF @[i] = None THEN None
                                        ELSE Some(NegVec(Get(@[i])))],
              !.P = IF L.type = "QuadraticLevelRepn"
                    THEN [ij \in DOMAIN @ |-> MatNeg(@[ij])]
                    ELSE @]

convert_sense(L, minimize) ==
    IF (minimize /\ ~L.minimize) \/ (~minimize /\ L.minimize)
    THEN [L EXCEPT !.minimize = minimize,
                   !.d = @ * (-1),
                   !.c = [i \in DOMAIN @ |-> IF @[i] = None THEN None
                                             ELSE Some(NegVec(Get(@[i])))],
                   !.P = IF L.type = "QuadraticLevelRepn"
                         THEN [ij \in DOMAIN @ |-> MatNeg(@[ij])]
                         ELSE @]
    ELSE L

convert_to_minimization(p) ==
    [p EXCEPT !.lv = [L \in DOMAIN @ |-> convert_sense(@[L], TRUE)]]

---------------------------------------------------------------------------
(* add_ineq_constraints, convert_constraints *)

\* vstack([mat, newmat]) with newmat the negated mat
add_ineq_constraints(mat) ==
    LET E(r, k) == IF r < mat.nr THEN Ent(mat, r, k) ELSE 0 - Ent(mat, r - mat.nr, k)
    IN  Mat(mat.nr + mat.nr, mat.nc, E)

\* equalities to inequalities, one level
DuplicateRows(L) ==
    IF ~L.inequalities
    THEN [L EXCEPT !.b = @ \o NegVec(@),
                   !.A = [i \in DOMAIN @ |-> IF @[i] = None THEN None
                                             ELSE Some(add_ineq_constraints(Get(@[i])))]]
    ELSE L

\* B[i, nxR+i] = 1 for i in range(len(L.b))
SlackEntries(B, nxR, nrows) ==
    LET E(r, k) == IF r < nrows /\ k = nxR + r THEN 1 ELSE Ent(B, r, k)
    IN  Mat(B.nr, B.nc, E)

\* inequalities to equalities, one level
AddSlacks(p, L) ==
    LET lev == p.lv[L] IN
    IF lev.inequalities /\ Len(lev.b) > 0
    THEN LET nxR == lev.x.nxR
             q == LevelResize(p, L, nxR + Len(lev.b), lev.x.nxZ, 0, PINF)
             B == q.lv[L].A[L]
         IN  IF B = None THEN q
             ELSE [q EXCEPT !.lv[L].A[L] = Some(SlackEntries(Get(B), nxR, Len(lev.b)))]
    ELSE p

RECURSIVE AddSlacksLoop(_, _, _)
AddSlacksLoop(p, Ls, k) ==
    IF k > Len(Ls) THEN p ELSE AddSlacksLoop(AddSlacks(p, Ls[k]), Ls, k + 1)

\* the flag set only in the levels whose constraints were converted
SetInequalitiesConverted(p, ineq) ==
    [p EXCEPT !.lv = [L \in DOMAIN @ |->
        IF (ineq /\ ~@[L].inequalities) \/ (~ineq /\ @[L].inequalities /\ Len(@[L].b) > 0)
        THEN [@[L] EXCEPT !.inequalities = ineq]
        ELSE @[L]]]

\* "Update inequality values"
SetInequalities(p, ineq) ==
    [p EXCEPT !.lv = [L \in DOMAIN @ |-> [@[L] EXCEPT !.inequalities = ineq]]]

convert_constraints(p, ineq) ==
    LET q == IF ineq
             THEN [p EXCEPT !.lv = [L \in DOMAIN @ |-> DuplicateRows(@[L])]]
             ELSE AddSlacksLoop(p, ProblemLevels(p), 1)
    IN  SetInequalities(q, ineq)

---------------------------------------------------------------------------
(* the "Resize matrices" loop of convert_to_standard_form *)

ResizeMatrices(p) ==
    [p EXCEPT !.lv = [X \in DOMAIN @ |->
        [@[X] EXCEPT !.A = [L \in DOMAIN @ |->
            IF @[L] = None THEN None
            ELSE Some(MatResize(Get(@[L]), Len(p.lv[X].b), XLen(p.lv[L].x)))]]]]

---------------------------------------------------------------------------
(* get_multipliers *)

\* st = [err, m]: multipliers[L.id][chg.v] = ... for one change
MultStep(st, chg) ==
    IF st.err # "" \/ chg.cls \notin {"UpperBound", "Unbounded"} THEN st
    ELSE IF chg.v >= Len(st.m) THEN [st EXCEPT !.err = "IndexError"]
    ELSE IF chg.cls = "UpperBound"
         THEN [st EXCEPT !.m = Put(@, chg.v, << <<chg.v, -1>> >>)]
         ELSE [st EXCEPT !.m = Put(@, chg.v, << <<chg.v, 1>>, <<Get(chg.w), -1>> >>)]

RECURSIVE MultLoop(_, _, _)
MultLoop(st, data, k) ==
    IF k > Len(data) THEN st ELSE MultLoop(MultStep(st, data[k]), data, k + 1)

\* multipliers[L.id] for one level of lbp
LevelMultipliers(x, chgs) ==
    MultLoop([err |-> "", m |-> [k \in 1..XLen(x) |-> << <<k - 1, 1>> >>]], chgs.data, 1)

\* returns [err, multipliers]
get_multipliers(lbp, chgs) ==
    LET r == [L \in LevelIds |-> LevelMultipliers(lbp.lv[L].x, chgs[L])]
    IN  [err |-> IF \E L \in LevelIds : r[L].err # "" THEN "IndexError" ELSE "",
         multipliers |-> [L \in LevelIds |-> r[L].m]]

---------------------------------------------------------------------------
(* The inputs: two-level problems built from small parts *)

BoundPairs ==
    {<<0, PINF>>, <<NINF, PINF>>, <<LbVal, PINF>>, <<NINF, UbVal>>, <<LbVal, UbVal>>}

\* variable blocks of at most MaxVars variables, continuous ones first
XBlocks ==
    UNION {{[nxR |-> nR, nxZ |-> n - nR, nxB |-> 0,
             lower_bounds |-> [k \in 1..n |-> bp[k][1]],
             upper_bounds |-> [k \in 1..n |-> bp[k][2]]]
            : bp \in [1..n -> BoundPairs], nR \in 0..n} : n \in 0..MaxVars}

\* which levels' variables a level references: all levels, its own, the other's
RefPatterns == {"all", "own", "cross"}
Refs(pat, X, L) == pat = "all" \/ (pat = "own" /\ X = L) \/ (pat = "cross" /\ X # L)

\* coefficient values: nonzero, and different in different positions
CVal(X, L, i) == 3 * X + L + i
AVal(X, L, r, k) == X + 2 * L + 3 * r + k
BVal(X, r) == 10 * X + r
DVal(X) == X
PVal(X, r, k) == X + r + 2 * k

MakeLevel(X, xs, min, ineq, rows, pat, type, pkeys) ==
    LET AE(L) == LET E(r, k) == AVal(X, L, r, k) IN Mat(rows, XLen(xs[L]), E)
        PE(ij) == LET E(r, k) == PVal(X, r, k) IN Mat(XLen(xs[ij[1]]), XLen(xs[ij[2]]), E)
    IN  [id |-> X, type |-> type, x |-> xs[X],
         minimize |-> min, inequalities |-> ineq,
         c |-> [L \in LevelIds |-> IF Refs(pat, X, L)
                                   THEN Some([k \in 1..XLen(xs[L]) |-> CVal(X, L, k - 1)])
                                   ELSE None],
         d |-> DVal(X),
         A |-> [L \in LevelIds |-> IF rows > 0 /\ Refs(pat, X, L) THEN Some(AE(L)) ELSE None],
         b |-> [r \in 1..rows |-> BVal(X, r - 1)],
         P |-> [ij \in pkeys |-> PE(ij)]]

XPairs == {xs \in [LevelIds -> XBlocks] : XLen(xs[1]) + XLen(xs[2]) <= MaxVars}

\* the constraint rows of the two levels and the levels they reference
RowPatterns ==
    {rp \in [rows : [LevelIds -> 0..MaxRows], pat : RefPatterns] :
        rp.pat # "all" => \A X \in LevelIds : rp.rows[X] = MaxRows}

\* a linear problem; the two levels have opposite senses
LinearProblem(xs, min1, ineq, rp) ==
    [kind |-> "LinearMultilevelProblem",
     lv |-> [X \in LevelIds |->
               MakeLevel(X, xs, min1 = (X = 1), ineq[X], rp.rows[X], rp.pat,
                         "LinearLevelRepn", {})]]

\* the quadratic terms the two levels may hold
PKeys ==
    {[X \in LevelIds |-> {}],
     [X \in LevelIds |-> IF X = 1 THEN {<<1, 1>>, <<1, 2>>} ELSE {}],
     [X \in LevelIds |-> IF X = 2 THEN {<<2, 2>>} ELSE {}],
     [X \in LevelIds |-> {<<X, X>>}]}

\* a quadratic problem; level 1 has inequalities, level 2 equalities
QuadraticProblem(xs, min, pk) ==
    [kind |-> "QuadraticMultilevelProblem",
     lv |-> [X \in LevelIds |->
               MakeLevel(X, xs, min[X], X = 1, MaxRows, "all", "QuadraticLevelRepn", pk[X])]]

\* an object of another type with the same attributes
OtherProblem(xs, min1) ==
    [LinearProblem(xs, min1, [X \in LevelIds |-> TRUE],
                   [rows |-> [X \in LevelIds |-> MaxRows], pat |-> "all"])
     EXCEPT !.kind = "LinearBilevelProblem"]

InitM ==
    \/ \E xs \in XPairs, min1 \in BOOLEAN, ineq \in [LevelIds -> BOOLEAN], rp \in RowPatterns :
          M = LinearProblem(xs, min1, ineq, rp)
    \/ \E xs \in XPairs, min \in [LevelIds -> BOOLEAN], pk \in PKeys :
          /\ \A X \in LevelIds : XLen(xs[X]) <= 1
          /\ M = QuadraticProblem(xs, min, pk)
    \/ \E xs \in XPairs, min1 \in BOOLEAN :
          /\ XLen(xs[2]) = 0
          /\ M = OtherProblem(xs, min1)

---------------------------------------------------------------------------
(* convert_to_standard_form *)

NoSnap == [cloned |-> None, minimized |-> None, constrained |-> None,
           nonneg |-> None, resized |-> None]

Init ==
    /\ InitM
    /\ inequalities \in BOOLEAN
    /\ ans = None
    /\ ansRef = "unset"
    /\ changes = None
    /\ multipliers = None
    /\ pc = "start"
    /\ err = ""
    /\ ret = None
    /\ snap = NoSnap
    /\ lvl = None
    /\ lvl1 = None
    /\ sense = TRUE
    /\ napplied = 0
    /\ xblock = None
    /\ ineqForm = FALSE
    /\ scanned = None

senseVars == <<lvl, lvl1, sense, napplied>>
findVars == <<xblock, ineqForm, scanned>>

\* `ans = M` in place of the clone
CloneTargetAlias == "M"

\* the object `ans` names after "ans = M.clone()"
CloneTarget == "clone"

\* an assignment through the name `ans`: it lands on M when ans names M
Store(q) ==
    /\ ans' = Some(q)
    /\ M' = IF ansRef = "M" THEN q ELSE M

\* no test of the type
TypeAcceptedAny(p) == TRUE

\* type(M) in [LinearMultilevelProblem, QuadraticMultilevelProblem]
TypeAccepted(p) == p.kind \in {"LinearMultilevelProblem", "QuadraticMultilevelProblem"}

\* the assert on type(M)
AssertType ==
    /\ pc = "start"
    /\ IF TypeAccepted(M)
       THEN pc' = "clone" /\ err' = err
       ELSE pc' = "error" /\ err' = "AssertionError"
    /\ UNCHANGED <<M, inequalities, ans, ansRef, changes, multipliers, ret, snap, senseVars, findVars>>

\* ans = M.clone()
Clone ==
    /\ pc = "clone"
    /\ ansRef' = CloneTarget
    /\ ans' = Some(clone(M))
    /\ snap' = [snap EXCEPT !.cloned = Some(clone(M))]
    /\ pc' = "sense"
    /\ UNCHANGED <<M, inequalities, changes, multipliers, err, ret, senseVars, findVars>>

ConvertToMinimization ==
    /\ pc = "sense"
    /\ LET q == convert_to_minimization(Get(ans))
       IN  Store(q) /\ snap' = [snap EXCEPT !.minimized = Some(q)]
    /\ pc' = "constraints"
    /\ UNCHANGED <<inequalities, ansRef, changes, multipliers, err, ret, senseVars, findVars>>

ConvertConstraints ==
    /\ pc = "constraints"
    /\ LET q == convert_constraints(Get(ans), inequalities)
       IN  Store(q) /\ snap' = [snap EXCEPT !.constrained = Some(q)]
    /\ pc' = "nonneg"
    /\ UNCHANGED <<inequalities, ansRef, changes, multipliers, err, ret, senseVars, findVars>>

ConvertToNonnegativeVariables ==
    /\ pc = "nonneg"
    /\ LET r == convert_to_nonnegative_variables(Get(ans), inequalities)
       IN  /\ Store(r.p)
           /\ snap' = [snap EXCEPT !.nonneg = Some(r.p)]
           /\ IF r.err = ""
              THEN changes' = Some(r.changes) /\ pc' = "resize" /\ err' = err
              ELSE changes' = changes /\ pc' = "error" /\ err' = r.err
    /\ UNCHANGED <<inequalities, ansRef, multipliers, ret, senseVars, findVars>>

ResizeStep ==
    /\ pc = "resize"
    /\ LET q == ResizeMatrices(Get(ans))
       IN  Store(q) /\ snap' = [snap EXCEPT !.resized = Some(q)]
    /\ pc' = "multipliers"
    /\ UNCHANGED <<inequalities, ansRef, changes, multipliers, err, ret, senseVars, findVars>>

\* multipliers = get_multipliers(M, changes); return ans, LMP_SolutionManager(multipliers)
GetMultipliers ==
    /\ pc = "multipliers"
    /\ LET r == get_multipliers(M, Get(changes))
       IN  IF r.err = ""
           THEN /\ multipliers' = Some(r.multipliers)
                /\ ret' = Some([ans |-> Get(ans), multipliers |-> r.multipliers])
                /\ pc' = "done" /\ err' = err
           ELSE /\ multipliers' = multipliers /\ ret' = ret
                /\ pc' = "error" /\ err' = r.err
    /\ UNCHANGED <<M, inequalities, ans, ansRef, changes, snap, senseVars, findVars>>

Next ==
    \/ AssertType
    \/ Clone
    \/ ConvertToMinimization
    \/ ConvertConstraints
    \/ ConvertToNonnegativeVariables
    \/ ResizeStep
    \/ GetMultipliers

Spec == Init /\ [][Next]_vars

---------------------------------------------------------------------------
(* Claims *)

\* the problem convert_to_standard_form returned
Out == Get(ret).ans

\* C1: in every level of the returned problem every continuous variable
\* (index below nxR) has lower bound 0 and upper bound +inf.
C1_ContinuousBoundsNormalized ==
    pc = "done" =>
        \A L \in LevelIds : \A i \in Range0(Out.lv[L].x.nxR) :
            /\ At(Out.lv[L].x.lower_bounds, i) = 0
            /\ At(Out.lv[L].x.upper_bounds, i) = PINF

---------------------------------------------------------------------------
(* Points and objective values, for the claims on equivalence *)

\* a value within the bounds (lb, ub); t selects one of three
PointVal(lb, ub, t) ==
    IF lb = NINF /\ ub = PINF THEN <<-2, 0, 3>>[t + 1]
    ELSE IF ub = PINF THEN lb + t
    ELSE IF lb = NINF THEN ub - t
    ELSE <<lb, ub, lb + 1>>[t + 1]

\* a point within the bounds of the variable block x
Point(x, s) ==
    [k \in 1..(x.nxR + x.nxZ) |->
        PointVal(x.lower_bounds[k], x.upper_bounds[k], (s + k) % 3)]

Dot(c, x) == SumOver([k \in DOMAIN c |-> c[k] * x[k]], DOMAIN c)

\* the objective of level lev at the point pts (one vector per level)
Obj(lev, pts) ==
    lev.d + SumOver([L \in LevelIds |-> IF lev.c[L] = None THEN 0
                                        ELSE Dot(Get(lev.c[L]), pts[L])], LevelIds)

\* the index a variable of the old layout has in the new layout
NewIndex(chgs, i) == IF i < chgs.nxR_old THEN i ELSE i + (chgs.nxR - chgs.nxR_old)

Pos(x) == IF x > 0 THEN x ELSE 0
Neg(x) == IF x < 0 THEN 0 - x ELSE 0

\* The forward substitution of the point xo (old layout) under the change list:
\* x-lb for LowerBound and Range, ub-x for UpperBound, the pair
\* (x+ + k, x- + k) for Unbounded, ub-lb-x' for the slack of a Range.
Forward(chgs, xo, k) ==
    LET nOld == chgs.nxR_old + chgs.nxZ_old
        data == chgs.data
        Old(j) == {i \in Range0(nOld) : NewIndex(chgs, i) = j}
        XOld(j) == At(xo, CHOOSE i \in Old(j) : TRUE)
    IN  [jj \in 1..(chgs.nxR + chgs.nxZ) |->
            LET j == jj - 1
                cv == {m \in DOMAIN data : data[m].v = j}
                cw == {m \in DOMAIN data : data[m].w = Some(j)}
            IN  IF Old(j) # {}
                THEN IF cv = {} THEN XOld(j)
                     ELSE LET chg == data[CHOOSE m \in cv : TRUE]
                          IN  IF chg.cls \in {"LowerBound", "Range"} THEN XOld(j) - Get(chg.lb)
                              ELSE IF chg.cls = "UpperBound" THEN Get(chg.ub) - XOld(j)
                              ELSE Pos(XOld(j)) + k
                ELSE IF cw = {} THEN 0
                     ELSE LET chg == data[CHOOSE m \in cw : TRUE]
                          IN  IF chg.cls = "Range" THEN Get(chg.ub) - XOld(chg.v)
                              ELSE Neg(XOld(chg.v)) + k]

\* C2: for every level X and every original point within the bounds, the
\* objective of X after bound normalization, at the forward-substituted
\* point, equals the objective of X after sense normalization at the
\* original point.
C2_ObjectiveEquivalence ==
    pc = "resize" =>
        LET mn == Get(snap.minimized)
            cn == Get(snap.constrained)
            post == Get(snap.nonneg)
            ch == Get(changes)
        IN  \A X \in LevelIds, s \in 0..2, k \in 0..1 :
                LET xm == [L \in LevelIds |-> Point(mn.lv[L].x, s)]
                    xc == [L \in LevelIds |->
                             ResizeVector(xm[L], mn.lv[L].x.nxR, mn.lv[L].x.nxZ,
                                          cn.lv[L].x.nxR, cn.lv[L].x.nxZ, 1)]
                    xn == [L \in LevelIds |-> Forward(ch[L], xc[L], k)]
                IN  Obj(post.lv[X], xn) = Obj(mn.lv[X], xm)

\* an ancestor's objective references a descendant whose variables change,
\* and the descendant's objective references the ancestor's changed variables
C2_Witness ==
    /\ pc = "resize"
    /\ \A L \in LevelIds : Len(Get(changes)[L].data) > 0
    /\ \A X, L \in LevelIds : Get(snap.nonneg).lv[X].c[L] # None
    /\ \E L \in LevelIds : Get(changes)[L].data[1].cls = "UpperBound"

\* the entry of the reconstruction map the claim describes, for the
\* original variable i of a level with variable block x0
ExpectedMultipliers(x0, chgs, outx, i) ==
    LET j == IF i < x0.nxR THEN i ELSE i + (outx.nxR - x0.nxR)
        lb == At(x0.lower_bounds, i)
        ub == At(x0.upper_bounds, i)
    IN  IF lb = NINF /\ ub = PINF
        THEN {<< <<j, 1>>, <<Get(chgs.data[m].w), -1>> >> :
                 m \in {m \in DOMAIN chgs.data :
                           chgs.data[m].cls = "Unbounded" /\ chgs.data[m].v = j}}
        ELSE IF lb = NINF THEN {<< <<j, -1>> >>}
        ELSE {<< <<j, 1>> >>}

\* C3: the reconstruction map has, for every level and every original
\* variable index i, the pairs (newIndex, coefficient) with newIndex the
\* position of that variable in the transformed vector; building it does
\* not fail.
C3_MultipliersKeyedByOriginalIndex ==
    /\ err # "IndexError"
    /\ pc = "done" =>
          \A L \in LevelIds : \A i \in Range0(XLen(M.lv[L].x)) :
              At(Get(ret).multipliers[L], i)
                  \in ExpectedMultipliers(M.lv[L].x, Get(changes)[L], Out.lv[L].x, i)

\* C4: the input problem M is never changed.
C4_InputUnchanged == [][M' = M]_vars

\* the conversion has changed the clone
C4_Witness == pc = "done" /\ Out # M /\ ansRef = "clone"

\* C5: every returned level is a minimization; the sense step negates d,
\* every c vector and every P matrix of a level that was a maximization
\* exactly once and leaves a level that was a minimization as it was.
C5_SenseNormalized ==
    /\ pc = "done" => \A L \in LevelIds : Out.lv[L].minimize
    /\ snap.minimized # None =>
          \A L \in LevelIds :
              LET a == Get(snap.cloned).lv[L]
                  z == Get(snap.minimized).lv[L]
              IN  /\ z.minimize
                  /\ IF a.minimize THEN z = a
                     ELSE /\ z.d = 0 - a.d
                          /\ \A i \in LevelIds :
                                /\ (z.c[i] = None) = (a.c[i] = None)
                                /\ a.c[i] # None =>
                                      /\ Len(Get(z.c[i])) = Len(Get(a.c[i]))
                                      /\ \A k \in DOMAIN Get(a.c[i]) :
                                            Get(z.c[i])[k] = 0 - Get(a.c[i])[k]
                          /\ DOMAIN z.P = DOMAIN a.P
                          /\ \A ij \in DOMAIN a.P :
                                /\ z.P[ij].nr = a.P[ij].nr /\ z.P[ij].nc = a.P[ij].nc
                                /\ \A r \in Range0(a.P[ij].nr), k \in Range0(a.P[ij].nc) :
                                      Ent(z.P[ij], r, k) = 0 - Ent(a.P[ij], r, k)
                          /\ z.x = a.x /\ z.A = a.A /\ z.b = a.b

\* a maximization level with a cross-level objective vector and a
\* quadratic term went through the whole conversion
C5_Witness ==
    /\ pc = "done"
    /\ \E L \in LevelIds :
          /\ ~M.lv[L].minimize
          /\ DOMAIN M.lv[L].P # {}
          /\ \E i \in LevelIds : i # L /\ M.lv[L].c[i] # None /\ Len(Get(M.lv[L].c[i])) > 0
          /\ \E ij \in DOMAIN M.lv[L].P : M.lv[L].P[ij].nr > 0 /\ M.lv[L].P[ij].nc > 0

\* C6: every returned level has its inequalities flag equal to the requested
\* target form.
C6_FormUniform ==
    pc = "done" => \A L \in LevelIds : Out.lv[L].inequalities = inequalities

\* a mix of forms in the input, one level without constraint rows
C6_Witness ==
    /\ pc = "done"
    /\ M.lv[1].inequalities # M.lv[2].inequalities
    /\ \E L \in LevelIds : Len(M.lv[L].b) = 0 /\ M.lv[L].inequalities # inequalities

\* C8: when the input is neither a linear nor a quadratic multilevel
\* problem the call ends in an error at the type check: no clone is taken,
\* no step has run and nothing is returned.
C8_TypeErrorBeforeClone ==
    M.kind \notin {"LinearMultilevelProblem", "QuadraticMultilevelProblem"} =>
        /\ pc \in {"start", "error"}
        /\ pc = "error" => err = "AssertionError"
        /\ ans = None /\ ansRef = "unset" /\ snap = NoSnap
        /\ changes = None /\ multipliers = None /\ ret = None

C8_Witness ==
    /\ pc = "error" /\ err = "AssertionError"
    /\ M.kind = "LinearBilevelProblem"

\* some variable of the block is not already (lb = 0, ub = +inf)
NeedsChange(x) ==
    \E k \in 1..(x.nxR + x.nxZ) : ~(x.lower_bounds[k] = 0 /\ x.upper_bounds[k] = PINF)

\* level X references the variables of level L
References(lev, L) ==
    \/ lev.c[L] # None
    \/ lev.A[L] # None
    \/ \E ij \in DOMAIN lev.P : ij[1] = L \/ ij[2] = L

\* a level with quadratic terms references variables that bound
\* normalization has to rewrite
QuadraticRewriteNeeded(p) ==
    \E X, L \in LevelIds :
        /\ DOMAIN p.lv[X].P # {}
        /\ NeedsChange(p.lv[L].x)
        /\ References(p.lv[X], L)

\* C9: when a level with quadratic terms references variables that bound
\* normalization has to rewrite, the call ends in an error and returns
\* nothing.
C9_QuadraticRewriteFails ==
    (snap.nonneg # None /\ QuadraticRewriteNeeded(Get(snap.constrained))) =>
        pc = "error" /\ err = "TypeError" /\ ret = None

C9_Witness ==
    /\ pc = "error" /\ err = "TypeError"
    /\ QuadraticRewriteNeeded(Get(snap.constrained))
    /\ \E X, L \in LevelIds : X # L /\ DOMAIN M.lv[X].P # {} /\ NeedsChange(M.lv[L].x)

\* the vector c and the matrix A of X for L's variables before bound
\* normalization, in L's new layout
LaidOutC(pre, chgs, X, L) ==
    IF pre.lv[X].c[L] = None THEN None
    ELSE Some(ResizeVector(Get(pre.lv[X].c[L]), chgs.nxR_old, chgs.nxZ_old,
                           chgs.nxR, chgs.nxZ, 0))
LaidOutA(pre, chgs, X, L) ==
    IF pre.lv[X].A[L] = None THEN None
    ELSE Some(ResizeColumns(Get(pre.lv[X].A[L]), chgs.nxR_old, chgs.nxZ_old,
                            chgs.nxR, chgs.nxZ))

\* X.d and X.b after the change lists of all levels were applied in turn
RECURSIVE RewrittenD(_, _, _, _, _, _)
RewrittenD(pre, post, ch, X, Ls, d) ==
    IF Ls = <<>> THEN d
    ELSE LET L == Head(Ls)
         IN  RewrittenD(pre, post, ch, X, Tail(Ls),
                 IF Len(ch[L].data) > 0
                 THEN _process_changes_obj(ch[L], post.lv[L].x, LaidOutC(pre, ch[L], X, L), d).d
                 ELSE d)
RECURSIVE RewrittenB(_, _, _, _, _, _)
RewrittenB(pre, post, ch, X, Ls, b) ==
    IF Ls = <<>> THEN b
    ELSE LET L == Head(Ls)
         IN  RewrittenB(pre, post, ch, X, Tail(Ls),
                 IF Len(ch[L].data) > 0
                 THEN _process_changes_con(ch[L], post.lv[L].x, LaidOutA(pre, ch[L], X, L),
                                           b, L = X).b
                 ELSE b)

C12_SlackCoefficients ==
    (snap.constrained # None /\ ~inequalities) =>
        LET pre == Get(snap.minimized)
            post == Get(snap.constrained)
        IN  \A L \in LevelIds :
              LET m == Len(pre.lv[L].b)
                  oR == pre.lv[L].x.nxR
              IN  (pre.lv[L].inequalities /\ m >= 1) =>
                    /\ post.lv[L].x.nxR = oR + m
                    /\ post.lv[L].A[L] # None
                    /\ \A i \in Range0(m), r \in Range0(m) :
                          Ent(Get(post.lv[L].A[L]), r, oR + i) = IF r = i THEN 1 ELSE 0
                    /\ \A X \in LevelIds \ {L} :
                          post.lv[X].A[L] # None =>
                              \A i \in Range0(m), r \in Range0(Len(post.lv[X].b)) :
                                  Ent(Get(post.lv[X].A[L]), r, oR + i) = 0

\* the positions of the Range changes in a change list, in order
RangeChanges(data) == {m \in DOMAIN data : data[m].cls = "Range"}

\* C13: for every Range change (v, lb, ub, w) of a level L the conversion
\* appends exactly one row, to L's own constraints only: len(L.b) grows by
\* the number of Range changes of L, and the row, placed after the rows L
\* had before, has ub-lb in L.b at its row index, coefficient 1 in column v
\* of A[L][L], coefficient 1 in column w exactly when a slack index exists
\* (equality target), and no other nonzero.
C13_RangeRowsOnce ==
    pc = "done" =>
        \A L \in LevelIds :
            LET pre == Get(snap.constrained).lv[L]
                out == Out.lv[L]
                data == Get(changes)[L].data
                rc == RangeChanges(data)
            IN  /\ Len(out.b) = Len(pre.b) + Cardinality(rc)
                /\ \A m \in rc :
                      LET r == Len(pre.b) + Cardinality({j \in rc : j < m})
                          chg == data[m]
                      IN  /\ (chg.w # None) = ~inequalities
                          /\ At(out.b, r) = Get(chg.ub) - Get(chg.lb)
                          /\ out.A[L] # None
                          /\ \A k \in Range0(XLen(out.x)) :
                                Ent(Get(out.A[L]), r, k) =
                                    IF k = chg.v \/ chg.w = Some(k) THEN 1 ELSE 0
                          /\ \A X \in LevelIds \ {L} :
                                out.A[X] # None =>
                                    \A k \in Range0(XLen(Out.lv[X].x)) :
                                        Ent(Get(out.A[X]), r, k) = 0

\* the entry (r, k) of the matrix of level lev on L's variables, 0 when the
\* level has no such matrix
Coef(lev, L, r, k) == IF lev.A[L] = None THEN 0 ELSE Ent(Get(lev.A[L]), r, k)

\* row r of level lev at the point pts (one vector per level), minus b[r]
Residual(lev, r, pts) ==
    SumOver([L \in LevelIds |->
                SumOver([k \in DOMAIN pts[L] |-> Coef(lev, L, r, k - 1) * pts[L][k]],
                        DOMAIN pts[L])], LevelIds)
    - At(lev.b, r)

\* what one change takes from b[r], given the old coefficient a of column v
RhsShift(chg, a) ==
    IF chg.cls \in {"LowerBound", "Range"} THEN a * Get(chg.lb)
    ELSE IF chg.cls = "UpperBound" THEN a * Get(chg.ub)
    ELSE 0

\* C14: bound normalization preserves every row r a level X had before it:
\* at every original point and its forward-substituted point the residual
\* of row r is the same before and after; per change, LowerBound and Range
\* take A[r,v]*lb from b[r] and keep A[r,v], UpperBound takes A[r,v]*ub
\* (old coefficient) from b[r] and negates A[r,v], Unbounded sets
\* A[r,w] = -A[r,v] and keeps A[r,v].
C14_RowsPreserved ==
    pc = "resize" =>
        LET pre == Get(snap.constrained)
            post == Get(snap.nonneg)
            ch == Get(changes)
            \* the old coefficient of X's row r at the final index j of L
            Old(X, L, r, j) ==
                IF pre.lv[X].A[L] = None THEN 0
                ELSE Ent(Get(LaidOutA(pre, ch[L], X, L)), r, j)
        IN  \A X \in LevelIds : \A r \in Range0(Len(pre.lv[X].b)) :
              /\ \A s \in 0..2, k \in 0..1 :
                    LET xc == [L \in LevelIds |-> Point(pre.lv[L].x, s)]
                        xn == [L \in LevelIds |-> Forward(ch[L], xc[L], k)]
                    IN  Residual(post.lv[X], r, xn) = Residual(pre.lv[X], r, xc)
              /\ \A L \in LevelIds : \A m \in DOMAIN ch[L].data :
                    LET chg == ch[L].data[m]
                        a == Old(X, L, r, chg.v)
                    IN  /\ Coef(post.lv[X], L, r, chg.v)
                              = IF chg.cls = "UpperBound" THEN 0 - a ELSE a
                        /\ chg.cls = "Unbounded" =>
                              Coef(post.lv[X], L, r, Get(chg.w)) = 0 - a
              /\ At(post.lv[X].b, r) =
                    At(pre.lv[X].b, r)
                    - SumOver([L \in LevelIds |->
                          SumOver([m \in DOMAIN ch[L].data |->
                                      RhsShift(ch[L].data[m], Old(X, L, r, ch[L].data[m].v))],
                                  DOMAIN ch[L].data)], LevelIds)

---------------------------------------------------------------------------
(* Repeated application of convert_sense to one level *)

SenseInit ==
    /\ \/ \E xs \in XPairs, min \in [LevelIds -> BOOLEAN], pk \in PKeys :
             /\ \A X \in LevelIds : XLen(xs[X]) <= 1
             /\ M = QuadraticProblem(xs, min, pk)
       \/ \E xs \in XPairs, min1 \in BOOLEAN :
             M = LinearProblem(xs, min1, [X \in LevelIds |-> TRUE],
                               [rows |-> [X \in LevelIds |-> MaxRows], pat |-> "all"])
    /\ \E X \in LevelIds : lvl = Some(M.lv[X])
    /\ lvl1 = None
    /\ sense \in BOOLEAN
    /\ napplied = 0
    /\ inequalities = FALSE
    /\ ans = None
    /\ ansRef = "unset"
    /\ changes = None
    /\ multipliers = None
    /\ pc = "sense"
    /\ err = ""
    /\ ret = None
    /\ snap = NoSnap
    /\ xblock = None
    /\ ineqForm = FALSE
    /\ scanned = None

\* convert_sense(L, sense), once more
ApplySense ==
    /\ napplied < MaxApply
    /\ lvl' = Some(convert_sense(Get(lvl), sense))
    /\ lvl1' = IF napplied = 0 THEN lvl' ELSE lvl1
    /\ napplied' = napplied + 1
    /\ UNCHANGED <<M, inequalities, ans, ansRef, changes, multipliers, pc, err, ret, snap,
                   sense, findVars>>

SenseNext == ApplySense

SenseSpec == SenseInit /\ [][SenseNext]_vars

\* C7: a second application of convert_sense with the same target leaves
\* minimize, d, every c vector and every P matrix as the first left them.
C7_SenseIdempotent ==
    napplied >= 1 =>
        /\ Get(lvl).minimize = Get(lvl1).minimize
        /\ Get(lvl).d = Get(lvl1).d
        /\ Get(lvl).c = Get(lvl1).c
        /\ Get(lvl).P = Get(lvl1).P

\* the first application flipped a level with quadratic terms, then a
\* second one ran
C7_Witness ==
    /\ napplied >= 2
    /\ Get(lvl1).minimize # M.lv[Get(lvl).id].minimize
    /\ DOMAIN Get(lvl).P # {}
    /\ Get(lvl).d # M.lv[Get(lvl).id].d

---------------------------------------------------------------------------
(* _find_nonpositive_variables applied to one variable block alone *)

\* the bounds a variable may have: the five cases of the scan, and lower
\* bound 0 with a finite upper bound
FindBoundPairs == BoundPairs \cup {<<0, UbVal>>}

\* variable blocks of at most MaxFindVars variables, continuous ones first
FindBlocks ==
    UNION {{[nxR |-> nR, nxZ |-> n - nR, nxB |-> 0,
             lower_bounds |-> [k \in 1..n |-> bp[k][1]],
             upper_bounds |-> [k \in 1..n |-> bp[k][2]]]
            : bp \in [1..n -> FindBoundPairs], nR \in 0..n} : n \in 0..MaxFindVars}

FindInit ==
    /\ xblock \in {Some(x) : x \in FindBlocks}
    /\ ineqForm \in BOOLEAN
    /\ scanned = None
    /\ M = OtherProblem([X \in LevelIds |-> CHOOSE x \in FindBlocks : XLen(x) = 0], TRUE)
    /\ inequalities = ineqForm
    /\ ans = None
    /\ ansRef = "unset"
    /\ changes = None
    /\ multipliers = None
    /\ pc = "nonneg"
    /\ err = ""
    /\ ret = None
    /\ snap = NoSnap
    /\ lvl = None
    /\ lvl1 = None
    /\ sense = TRUE
    /\ napplied = 0

\* changes = _find_nonpositive_variables(V, inequalities)
ApplyFind ==
    /\ scanned = None
    /\ scanned' = Some(_find_nonpositive_variables(Get(xblock), ineqForm))
    /\ UNCHANGED <<M, inequalities, ans, ansRef, changes, multipliers, pc, err, ret, snap,
                   senseVars, xblock, ineqForm>>

FindNext == ApplyFind

FindSpec == FindInit /\ [][FindNext]_vars

\* variable i of the block x needs no change
NonNegative(x, i) == At(x.lower_bounds, i) = 0 /\ At(x.upper_bounds, i) = PINF

\* the original index of the variable the m-th change was made for: the
\* m-th variable, in index order, that needs a change
ChangedVariable(x, m) ==
    CHOOSE i \in Range0(x.nxR + x.nxZ) :
        /\ ~NonNegative(x, i)
        /\ Cardinality({j \in Range0(i) : ~NonNegative(x, j)}) = m - 1

\* C11: the change list holds exactly one change per variable whose bounds
\* are not (0, +inf) and none for the others, and the final counts satisfy
\* finalNxR + finalNxZ = originalNxR + originalNxZ + (number of changes with
\* a new index w), so the assert on that identity holds.
C11_CountIdentity ==
    scanned # None =>
        LET x == Get(xblock)
            r == Get(scanned)
            ch == r.changes
            n == x.nxR + x.nxZ
            withW == {m \in DOMAIN ch.data : ch.data[m].w # None}
        IN  /\ r.ok
            /\ ch.nxR + ch.nxZ = n + Cardinality(withW)
            /\ ch.nxR_old = x.nxR /\ ch.nxZ_old = x.nxZ
            /\ Len(ch.data) = Cardinality({i \in Range0(n) : ~NonNegative(x, i)})
            /\ \A i \in Range0(n) :
                  Cardinality({m \in DOMAIN ch.data : ch.data[m].v = NewIndex(ch, i)})
                      = IF NonNegative(x, i) THEN 0 ELSE 1

\* a block of continuous and integer variables, some unchanged, with an
\* unbounded integer and a slack of the equality form
C11_Witness ==
    /\ scanned # None
    /\ ~ineqForm
    /\ Get(xblock).nxR >= 2 /\ Get(xblock).nxZ >= 2
    /\ \E i \in Range0(XLen(Get(xblock))) : NonNegative(Get(xblock), i)
    /\ \E m \in DOMAIN Get(scanned).changes.data :
          LET c == Get(scanned).changes.data[m] IN c.cls = "Range" /\ c.w # None
    /\ \E m \in DOMAIN Get(scanned).changes.data :
          LET c == Get(scanned).changes.data[m] IN c.cls = "Unbounded" /\ ~c.real

\* C15: in the returned change list the change of a continuous variable i
\* has v = i and that of an integer variable i has v = i + (finalNxR -
\* originalNxR); a new real slot w lies in [originalNxR, finalNxR), a new
\* integer slot w in [finalNxR + originalNxZ, finalNxR + finalNxZ); all v and
\* all non-null w are pairwise distinct and no w is the final index of an
\* existing variable.
C15_IndexLayout ==
    scanned # None =>
        LET x == Get(xblock)
            ch == Get(scanned).changes
            data == ch.data
            n == x.nxR + x.nxZ
            withW == {m \in DOMAIN data : data[m].w # None}
            vs == {data[m].v : m \in DOMAIN data}
            ws == {Get(data[m].w) : m \in withW}
            existing == {IF i < x.nxR THEN i ELSE i + (ch.nxR - x.nxR) : i \in Range0(n)}
        IN  /\ \A m \in DOMAIN data :
                  LET i == ChangedVariable(x, m)
                  IN  /\ data[m].real = (i < x.nxR)
                      /\ data[m].v = IF i < x.nxR THEN i ELSE i + (ch.nxR - x.nxR)
            /\ \A m \in withW :
                  LET w == Get(data[m].w)
                  IN  IF data[m].cls = "Unbounded" /\ ~data[m].real
                      THEN ch.nxR + x.nxZ <= w /\ w < ch.nxR + ch.nxZ
                      ELSE x.nxR <= w /\ w < ch.nxR
            /\ Cardinality(vs) = Len(data)
            /\ Cardinality(ws) = Cardinality(withW)
            /\ vs \cap ws = {}
            /\ ws \cap existing = {}

\* integers behind two new real slots (an unbounded real, the slack of an
\* integer Range) and an unbounded integer
C15_Witness ==
    /\ scanned # None
    /\ ~ineqForm
    /\ Get(scanned).changes.nxR >= Get(xblock).nxR + 2
    /\ Get(scanned).changes.nxZ > Get(xblock).nxZ
    /\ \E m \in DOMAIN Get(scanned).changes.data :
          LET c == Get(scanned).changes.data[m] IN c.cls = "Range" /\ ~c.real /\ c.w # None
    /\ \E m \in DOMAIN Get(scanned).changes.data :
          LET c == Get(scanned).changes.data[m] IN c.cls = "Unbounded" /\ c.real

====
